---- MODULE Spec2Model ----
(***************************************************************************)
(* Session subsystem of the Taura companion app                           *)
(* (apps/companion/src-tauri/src/oauth.rs): the tauri commands            *)
(* get_session, logout, google_auth_start, refresh_session and            *)
(* ensure_fresh_session, the session file they share, the redirect        *)
(* listener's query parser and the refresh merge.                         *)
(*                                                                         *)
(* A command runs in a slot of `frame`, which holds its locals.  Its      *)
(* steps are cut where the code suspends or blocks: listener.accept(),    *)
(* each .await on an HTTP request, and between the truncating open and    *)
(* the write of fs::write.  Strings are atoms or sequences of atoms;      *)
(* Option<T> is the empty or one-element sequence.  The provider, the     *)
(* browser and the network are the environment: their answers are chosen  *)
(* with \E.  File system calls on the session file are taken to succeed,  *)
(* and a redirect request is what the listener's single read delivers.    *)
(*                                                                         *)
(* Spec is the life of the session file under commands invoked one after  *)
(* the other while the clock moves; RedirectSpec is the sign-in alone      *)
(* under every redirect request of up to MaxPairs query parameters, and   *)
(* RedirectFairSpec the same under fair scheduling; ConcSpec is commands  *)
(* of two slots overlapping in time; PkceSpec is the sign-in over random  *)
(* buffers of several sizes.                                               *)
(***************************************************************************)
EXTENDS Integers, Sequences, FiniteSets, TLC

VARIABLES
    file,   \* the session file: absent, unparsable bytes, or a serialized Session
    now,    \* chrono::Utc::now().timestamp()
    calls,  \* number of commands invoked so far
    frame   \* per command slot: the locals of the command last invoked there

vars == <<file, now, calls, frame>>

-----------------------------------------------------------------------------
(* Bounds of the model *)

MaxCalls == 3           \* commands invoked in one behaviour
MaxPairs == 3           \* query parameters in a redirect request

Procs == {"p1", "p2"}   \* command slots
Times == {0, 30, 60}    \* the clock readings

-----------------------------------------------------------------------------
(* Option<T>: None is the empty sequence, Some(x) the one-element one *)

None == << >>
Some(x) == <<x>>
IsSome(o) == o # << >>
Unwrap(o) == o[1]

-----------------------------------------------------------------------------
(* Data *)

\* ensure_fresh_session: `if exp - now > 60`
FRESH_MARGIN == 60
\* `+ s - 30); // renew 30s early`
RENEW_SKEW == 30

\* #[derive(Default)] struct Session
DefaultSession ==
    [access_token |-> "", refresh_token |-> None, expires_at |-> None,
     id_token |-> None, email |-> None, name |-> None, picture |-> None,
     sub |-> None, client_id |-> None, client_secret |-> None]

\* struct TokenResp (token_type and scope are decoded and never read): the
\* provider's usual answer
BaseTok ==
    [access_token |-> "a1", expires_in |-> Some(91),
     refresh_token |-> Some("r1"), id_token |-> Some("i1")]

\* No TokenResp decoded (yet)
NoTok ==
    [access_token |-> "", expires_in |-> None, refresh_token |-> None,
     id_token |-> None]

\* The token responses the provider may send with a success status and a body
\* that decodes.
TokenResps ==
    [access_token : {"a1"},
     expires_in : {None, Some(50), Some(90), Some(91)},
     refresh_token : {None, Some("r1"), Some("r2")},
     id_token : {Some("i1")}]
    \cup {[BaseTok EXCEPT !.access_token = a] : a \in {"", "a2"}}
    \cup {[BaseTok EXCEPT !.id_token = None]}

\* What a POST to the token endpoint can come back with.
TokenReplies ==
    {[kind |-> k, tok |-> NoTok] : k \in {"transport_error", "status_error", "bad_body"}}
    \cup {[kind |-> "ok", tok |-> t] : t \in TokenResps}

\* struct UserInfo
NoInfo == [sub |-> None, email |-> None, name |-> None, picture |-> None]
FullInfo == [sub |-> Some("u1"), email |-> Some("e1"), name |-> Some("n1"),
             picture |-> Some("p1")]

\* What the GET of the userinfo endpoint can come back with.  `json` is a body
\* that decodes as UserInfo: every field is optional, so any JSON object does.
UserinfoReplies ==
    {[kind |-> "transport_error", status |-> 0, info |-> NoInfo],
     [kind |-> "bad_body", status |-> 200, info |-> NoInfo],
     [kind |-> "json", status |-> 200, info |-> FullInfo],
     [kind |-> "json", status |-> 200, info |-> [FullInfo EXCEPT !.email = None]],
     [kind |-> "json", status |-> 401, info |-> NoInfo]}

\* struct GoogleAuthConfig; strings are sequences of atoms, " " is whitespace
Configs ==
    {[client_id |-> << >>, client_secret |-> None],
     [client_id |-> <<" ">>, client_secret |-> None],
     [client_id |-> <<" ", "abc", " ">>, client_secret |-> Some(<<" ">>)],
     [client_id |-> <<"abc">>, client_secret |-> Some(<<"sec", " ">>)]}

-----------------------------------------------------------------------------
(* The session file *)

NoFile == [kind |-> "absent", data |-> DefaultSession]

\* fs::write opens with truncation: the file exists and is empty until the
\* bytes are written.
Truncated == [kind |-> "unparsable", data |-> DefaultSession]

Written(s) == [kind |-> "session", data |-> s]

\* Fault: a file that does not parse is read as the default Session
load_session_default(f) ==
    IF f.kind = "session" THEN Some(f.data)
    ELSE IF f.kind = "unparsable" THEN Some(DefaultSession) ELSE None

\* fn load_session: None when the file is absent or does not parse
load_session(f) == IF f.kind = "session" THEN Some(f.data) ELSE None

\* Fault: the exists() test is inverted
remove_file_inverted(f) == IF f.kind = "absent" THEN NoFile ELSE f

\* logout: `if p.exists() { let _ = fs::remove_file(p); }`
remove_file(f) == IF f.kind # "absent" THEN NoFile ELSE f

-----------------------------------------------------------------------------
(* Results of a command *)

NoResult == [kind |-> "none", val |-> None, err |-> ""]
Ok(v) == [kind |-> "ok", val |-> v, err |-> ""]
Err(e) == [kind |-> "err", val |-> None, err |-> e]

-----------------------------------------------------------------------------
(* Strings as sequences of atoms *)

RECURSIVE trim_start(_)
trim_start(s) ==
    IF s # << >> /\ Head(s) = " " THEN trim_start(Tail(s)) ELSE s

RECURSIVE trim_end(_)
trim_end(s) ==
    IF s # << >> /\ s[Len(s)] = " " THEN trim_end(SubSeq(s, 1, Len(s) - 1)) ELSE s

\* str::trim
trim(s) == trim_end(trim_start(s))

\* cfg.client_secret.as_ref().map(|s| s.trim()).filter(|s| !s.is_empty())
client_secret_opt(cfg) ==
    IF IsSome(cfg.client_secret) /\ trim(Unwrap(cfg.client_secret)) # << >>
    THEN Some(trim(Unwrap(cfg.client_secret)))
    ELSE None

-----------------------------------------------------------------------------
(* PKCE code verifier and challenge *)

\* `let mut vr = [0u8; 48];`
RANDOM_BYTES == 48
\* `while code_verifier.len() < 43`
VERIFIER_MIN == 43
\* `if code_verifier.len() > 128 { code_verifier.truncate(128); }`
VERIFIER_MAX == 128

\* A string over the base64url alphabet is kept by its make-up: the first
\* `kept` characters of the encoding of `src` random bytes, followed by
\* `filler` characters 'A'.
StrLen(v) == v.kept + v.filler

\* URL_SAFE_NO_PAD.encode(vr): four characters for every three bytes, the
\* last group cut short, no '=' padding
encode(vr) == [src |-> vr, kept |-> (4 * vr + 2) \div 3, filler |-> 0]

\* String::push('A')
push_A(v) == [v EXCEPT !.filler = @ + 1]

\* String::truncate(n)
truncate(v, n) ==
    IF StrLen(v) <= n THEN v
    ELSE IF v.kept >= n THEN [v EXCEPT !.kept = n, !.filler = 0]
    ELSE [v EXCEPT !.filler = n - v.kept]

\* `while code_verifier.len() < 43 { code_verifier.push('A'); }`
RECURSIVE pad(_)
pad(v) == IF StrLen(v) < VERIFIER_MIN THEN pad(push_A(v)) ELSE v

\* The verifier after the two length guards
code_verifier(encoded) ==
    IF StrLen(pad(encoded)) > VERIFIER_MAX
    THEN truncate(pad(encoded), VERIFIER_MAX)
    ELSE pad(encoded)

\* URL_SAFE_NO_PAD.encode(Sha256::digest(code_verifier.as_bytes()))
code_challenge(verifier) == [b64 |-> [sha256 |-> verifier]]

\* Fault: the challenge is taken from the encoding before the length guards
pkce_challenge_first(vr) ==
    [verifier |-> code_verifier(encode(vr)), challenge |-> code_challenge(encode(vr))]

\* The verifier and the challenge of one attempt, from its random bytes
pkce(vr) ==
    [verifier |-> code_verifier(encode(vr)),
     challenge |-> code_challenge(code_verifier(encode(vr)))]

-----------------------------------------------------------------------------
(* The redirect listener: request line and query parser *)

\* uuid::Uuid::new_v4().to_string(): each attempt has a state of its own
StateOf(p) == IF p = "p1" THEN <<"s1">> ELSE <<"s2">>

\* urlencoding::decode of one atom: a valid escape decodes, anything else is
\* kept; "%FF" is an escape whose bytes are not UTF-8.
PctAtom(a) == IF a = "%73%31" THEN "s1" ELSE a

\* urlencoding::decode(v_raw).unwrap_or_default().to_string()
decode(v_raw) ==
    IF \E i \in 1..Len(v_raw) : v_raw[i] = "%FF"
    THEN << >>
    ELSE [i \in 1..Len(v_raw) |-> PctAtom(v_raw[i])]

\* Index of the first '=' of a pair, 0 when it has none
FirstEq(pair) ==
    IF \E i \in 1..Len(pair) : pair[i] = "="
    THEN CHOOSE i \in 1..Len(pair) :
             pair[i] = "=" /\ \A j \in 1..(i - 1) : pair[j] # "="
    ELSE 0

\* pair.splitn(2, '='): kv.next().unwrap_or("") twice
split_key(pair) ==
    IF FirstEq(pair) = 0 THEN pair ELSE SubSeq(pair, 1, FirstEq(pair) - 1)

split_value(pair) ==
    IF FirstEq(pair) = 0 THEN << >> ELSE SubSeq(pair, FirstEq(pair) + 1, Len(pair))

\* Fault: the state check is skipped once a code has been seen.
RECURSIVE scan_pairs_until_code(_, _, _)
scan_pairs_until_code(pairs, state, code_opt) ==
    IF pairs = << >>
    THEN [err |-> "", code |-> code_opt]
    ELSE LET k == split_key(Head(pairs))
             v == decode(split_value(Head(pairs)))
         IN  IF k = <<"state">> /\ v # state /\ ~IsSome(code_opt)
             THEN [err |-> "state mismatch", code |-> None]
             ELSE scan_pairs_until_code(Tail(pairs), state,
                                        IF k = <<"code">> THEN Some(v) ELSE code_opt)

\* One turn of `for pair in qs.split('&')`: the state check comes first and
\* returns from the command; a code pair overwrites code_opt.
RECURSIVE scan_pairs(_, _, _)
scan_pairs(pairs, state, code_opt) ==
    IF pairs = << >>
    THEN [err |-> "", code |-> code_opt]
    ELSE LET k == split_key(Head(pairs))
             v == decode(split_value(Head(pairs)))
         IN  IF k = <<"state">> /\ v # state
             THEN [err |-> "state mismatch", code |-> None]
             ELSE scan_pairs(Tail(pairs), state,
                             IF k = <<"code">> THEN Some(v) ELSE code_opt)

\* Fault: code_opt.unwrap_or_default() in place of ok_or_else(..)?
parse_redirect_default_code(line, state) ==
    IF line.parts < 2 THEN [err |-> "malformed redirect request", code |-> None]
    ELSE IF ~IsSome(line.query) THEN [err |-> "missing query in redirect", code |-> None]
    ELSE LET r == scan_pairs(Unwrap(line.query), state, None)
         IN  IF r.err # "" THEN r
             ELSE IF ~IsSome(r.code) THEN [err |-> "", code |-> Some(<< >>)]
                  ELSE r

\* The block `let code = { ... }`: line.parts is the number of whitespace
\* separated tokens of the first line, line.query what follows the first '?'
\* of the second token (None when it has no '?').
parse_redirect(line, state) ==
    IF line.parts < 2 THEN [err |-> "malformed redirect request", code |-> None]
    ELSE IF ~IsSome(line.query) THEN [err |-> "missing query in redirect", code |-> None]
    ELSE LET r == scan_pairs(Unwrap(line.query), state, None)
         IN  IF r.err # "" THEN r
             ELSE IF ~IsSome(r.code)
                  THEN [err |-> "authorization code missing", code |-> None]
                  ELSE r

\* The query parameters a browser, a stale tab or a forger may send
QueryPairs ==
    {<<"state", "=", "s1">>, <<"state", "=", "s2">>, <<"state", "=", "%73%31">>,
     <<"state", "=", "%FF">>, <<"code", "=", "c1">>, <<"code">>, <<"x", "=", "state">>}

RECURSIVE SeqsUpTo(_, _)
SeqsUpTo(S, n) ==
    IF n = 0 THEN {<< >>}
    ELSE LET shorter == SeqsUpTo(S, n - 1)
         IN  shorter \cup {Append(q, x) : q \in shorter, x \in S}

NoLine == [io |-> "none", parts |-> 0, query |-> None]

\* What listener.accept() and stream.read() can deliver
Connections ==
    {[io |-> e, parts |-> 0, query |-> None] : e \in {"accept_error", "read_error"}}
    \cup {[io |-> "ok", parts |-> n, query |-> None] : n \in {0, 1, 2}}
    \cup {[io |-> "ok", parts |-> 3, query |-> Some(q)] : q \in SeqsUpTo(QueryPairs, MaxPairs)}

-----------------------------------------------------------------------------
(* Expiry arithmetic and the two places a Session is made *)

\* tok.expires_in.map(|s| chrono::Utc::now().timestamp() + s - 30)
expires_at_of(expires_in, t) ==
    IF IsSome(expires_in) THEN Some(t + Unwrap(expires_in) - RENEW_SKEW) ELSE None

\* google_auth_start: `let session = Session { ... }`
new_session(t, info, client_id, secret, at) ==
    [access_token |-> t.access_token,
     refresh_token |-> t.refresh_token,
     expires_at |-> expires_at_of(t.expires_in, at),
     id_token |-> t.id_token,
     email |-> info.email, name |-> info.name, picture |-> info.picture,
     sub |-> info.sub,
     client_id |-> Some(client_id),
     client_secret |-> secret]

\* Fault: `existing.refresh_token = tok.refresh_token` without the `if let`
merge_refresh_overwrite(existing, t, at) ==
    [existing EXCEPT
        !.access_token = t.access_token,
        !.refresh_token = t.refresh_token,
        !.id_token = IF IsSome(t.id_token) THEN t.id_token ELSE @,
        !.expires_at = expires_at_of(t.expires_in, at)]

\* do_refresh: the assignments to `existing` after the response decoded
\* Fault: the session is built anew from the response and the client fields
merge_refresh_rebuilt(existing, t, at) ==
    [DefaultSession EXCEPT
        !.access_token = t.access_token,
        !.refresh_token = IF IsSome(t.refresh_token) THEN t.refresh_token
                          ELSE existing.refresh_token,
        !.id_token = t.id_token,
        !.expires_at = expires_at_of(t.expires_in, at),
        !.client_id = existing.client_id,
        !.client_secret = existing.client_secret]

\* Fault: expires_at is assigned only when the response has expires_in
merge_refresh_keep_expiry(existing, t, at) ==
    [existing EXCEPT
        !.access_token = t.access_token,
        !.refresh_token = IF IsSome(t.refresh_token) THEN t.refresh_token ELSE @,
        !.id_token = IF IsSome(t.id_token) THEN t.id_token ELSE @,
        !.expires_at = IF IsSome(t.expires_in) THEN expires_at_of(t.expires_in, at)
                       ELSE @]

merge_refresh(existing, t, at) ==
    [existing EXCEPT
        !.access_token = t.access_token,
        !.refresh_token = IF IsSome(t.refresh_token) THEN t.refresh_token ELSE @,
        !.id_token = IF IsSome(t.id_token) THEN t.id_token ELSE @,
        !.expires_at = expires_at_of(t.expires_in, at)]

\* Fault: `exp - now >= 60`
is_fresh_inclusive(s, t) ==
    IsSome(s.expires_at) /\ Unwrap(s.expires_at) - t >= FRESH_MARGIN

\* Fault: a session without expires_at is taken to be fresh
is_fresh_or_absent(s, t) ==
    ~IsSome(s.expires_at) \/ Unwrap(s.expires_at) - t > FRESH_MARGIN

\* ensure_fresh_session: `if let Some(exp) = sess.expires_at { if exp - now > 60`
is_fresh(s, t) ==
    IsSome(s.expires_at) /\ Unwrap(s.expires_at) - t > FRESH_MARGIN

-----------------------------------------------------------------------------
(* Commands *)

\* The locals of a command as it is invoked
NewFrame(name) ==
    [pc |-> "idle", op |-> name, result |-> NoResult,
     found |-> "none",           \* the file as load_session met it
     loaded |-> None,            \* what load_session returned to this call
     read_now |-> None,          \* `now` as ensure_fresh_session read it
     existing |-> DefaultSession,\* do_refresh's `existing` / sign-in's `session`
     tok |-> NoTok,              \* the decoded TokenResp
     line |-> NoLine,            \* sign-in: what the listener read
     code |-> None,              \* sign-in: the code put in the exchange
     cfg_client_id |-> << >>,    \* sign-in: cfg.client_id as it was passed
     client_id |-> << >>, client_secret |-> None,
     binds |-> 0,                \* sign-in: TcpListener::bind calls
     opens |-> 0,                \* sign-in: open::that calls
     code_verifier |-> None,     \* sign-in: the PKCE verifier of the attempt
     code_challenge |-> None,    \* sign-in: the challenge put in the auth URL
     posted_verifier |-> None,   \* sign-in: the code_verifier put in the exchange
     existed |-> FALSE,          \* logout: what p.exists() answered
     http |-> "none",            \* how the last token-endpoint request ended
     tok_at |-> None,            \* `now` when the TokenResp was received
     info_http |-> "none",       \* sign-in: how the userinfo request ended
     info_status |-> 0,          \* sign-in: the status of the userinfo response
     userinfo |-> NoInfo,        \* sign-in: the UserInfo the response's body gave
     before |-> None,            \* mid-write: what a reader loaded until the open
     grants |-> 0,               \* refresh grants posted by this call
     exchanges |-> 0,            \* authorization-code grants posted by this call
     fetches |-> 0,              \* userinfo requests sent by this call
     persists |-> 0]             \* persist_session calls made by this call

Returned(f, r) == [f EXCEPT !.pc = "idle", !.result = r]

CanInvoke(p) == frame[p].pc = "idle" /\ calls < MaxCalls

\* The locals of a command that starts by load_session
Loading(name, fl) == [NewFrame(name) EXCEPT !.found = fl.kind]

\* The time at which a token response that carries a TokenResp came in
received(reply, t) == IF reply.kind = "ok" THEN Some(t) ELSE None

\* A call that goes into persist_session opens the file with truncation:
\* until the bytes are written, `before` keeps what a reader would have
\* loaded up to the open.
opening(f, fl) ==
    IF f.pc = "persist_write" THEN [f EXCEPT !.before = load_session(fl)] ELSE f

\* pub async fn get_session
get_session(p) ==
    /\ CanInvoke(p)
    /\ calls' = calls + 1
    /\ frame' = [frame EXCEPT ![p] =
                    Returned(Loading("get_session", file), Ok(load_session(file)))]
    /\ UNCHANGED <<file, now>>

\* pub async fn logout
logout(p) ==
    /\ CanInvoke(p)
    /\ calls' = calls + 1
    /\ file' = remove_file(file)
    /\ frame' = [frame EXCEPT ![p] =
                    Returned([NewFrame("logout") EXCEPT !.existed = file.kind # "absent"],
                             Ok(None))]
    /\ UNCHANGED now

\* google_auth_start up to listener.accept(): trims the client id, makes the
\* verifier and the challenge from vr random bytes, binds the listener, opens
\* the browser on the auth URL.  env is what the OS does with bind and open.
\* Fault: the client id is tested for emptiness before it is trimmed
auth_start_frame_untrimmed(cfg, env, vr) ==
    LET f == [NewFrame("google_auth_start") EXCEPT !.cfg_client_id = cfg.client_id]
        g == [f EXCEPT !.code_verifier = Some(pkce(vr).verifier),
                       !.code_challenge = Some(pkce(vr).challenge),
                       !.binds = 1]
        h == [g EXCEPT !.opens = 1]
    IN  IF cfg.client_id = << >>
        THEN Returned(f, Err("client_id empty"))
        ELSE IF env = "bind_error" THEN Returned(g, Err("bind failed"))
        ELSE IF env = "open_error" THEN Returned(h, Err("failed to open browser"))
        ELSE [h EXCEPT !.pc = "accept",
                       !.client_id = trim(cfg.client_id),
                       !.client_secret = client_secret_opt(cfg)]

auth_start_frame(cfg, env, vr) ==
    LET f == [NewFrame("google_auth_start") EXCEPT !.cfg_client_id = cfg.client_id]
        g == [f EXCEPT !.code_verifier = Some(pkce(vr).verifier),
                       !.code_challenge = Some(pkce(vr).challenge),
                       !.binds = 1]
        h == [g EXCEPT !.opens = 1]
    IN  IF trim(cfg.client_id) = << >>
        THEN Returned(f, Err("client_id empty"))
        ELSE IF env = "bind_error" THEN Returned(g, Err("bind failed"))
        ELSE IF env = "open_error" THEN Returned(h, Err("failed to open browser"))
        ELSE [h EXCEPT !.pc = "accept",
                       !.client_id = trim(cfg.client_id),
                       !.client_secret = client_secret_opt(cfg)]

google_auth_start(p, cfg, env, vr) ==
    /\ CanInvoke(p)
    /\ calls' = calls + 1
    /\ frame' = [frame EXCEPT ![p] = auth_start_frame(cfg, env, vr)]
    /\ UNCHANGED <<file, now>>

\* google_auth_start from accept() to the POST of the authorization-code grant
auth_redirect_frame(f, conn, state) ==
    LET g == [f EXCEPT !.line = conn]
        r == parse_redirect(conn, state)
    IN  IF conn.io # "ok" THEN Returned(g, Err(conn.io))
        ELSE IF r.err # "" THEN Returned(g, Err(r.err))
        ELSE [g EXCEPT !.pc = "token_wait", !.code = r.code,
                       !.posted_verifier = f.code_verifier,
                       !.exchanges = @ + 1]

auth_redirect(p, conn) ==
    /\ frame[p].pc = "accept"
    /\ frame' = [frame EXCEPT ![p] = auth_redirect_frame(frame[p], conn, StateOf(p))]
    /\ UNCHANGED <<file, now, calls>>

\* google_auth_start from the token response to the GET of userinfo
auth_token_frame(f, reply) ==
    IF reply.kind = "transport_error" THEN Returned(f, Err("token request failed"))
    ELSE IF reply.kind = "status_error" THEN Returned(f, Err("token exchange failed"))
    ELSE IF reply.kind = "bad_body" THEN Returned(f, Err("token decode failed"))
    ELSE [f EXCEPT !.pc = "userinfo_wait", !.tok = reply.tok, !.fetches = @ + 1]

auth_token_reply(p, reply) ==
    /\ frame[p].pc = "token_wait"
    /\ frame' = [frame EXCEPT ![p] =
                    auth_token_frame([frame[p] EXCEPT !.http = reply.kind,
                                                      !.tok_at = received(reply, now)],
                                     reply)]
    /\ UNCHANGED <<file, now, calls>>

\* google_auth_start from the userinfo response into persist_session: the
\* response's status is not looked at, only whether the body decodes.
userinfo_ok(reply) == reply.kind = "json"

auth_userinfo_frame(f, reply, t) ==
    IF reply.kind = "transport_error" THEN Returned(f, Err("userinfo request failed"))
    ELSE IF ~userinfo_ok(reply) THEN Returned(f, Err("userinfo decode failed"))
    ELSE [f EXCEPT !.pc = "persist_write", !.persists = @ + 1,
                   !.existing = new_session(f.tok, reply.info, f.client_id,
                                            f.client_secret, t)]

auth_userinfo_reply(p, reply) ==
    /\ frame[p].pc = "userinfo_wait"
    /\ frame' = [frame EXCEPT ![p] =
                    opening(auth_userinfo_frame([frame[p] EXCEPT
                                                    !.info_http = reply.kind,
                                                    !.info_status = reply.status,
                                                    !.userinfo = reply.info],
                                                reply, now), file)]
    /\ file' = IF frame'[p].pc = "persist_write" THEN Truncated ELSE file
    /\ UNCHANGED <<now, calls>>

\* persist_session after the truncating open: the bytes are written, the mode
\* is set, and the command returns the session it stored.
persist_write(p) ==
    /\ frame[p].pc = "persist_write"
    /\ file' = Written(frame[p].existing)
    /\ frame' = [frame EXCEPT ![p] =
                    Returned([@ EXCEPT !.before = None], Ok(Some(@.existing)))]
    /\ UNCHANGED <<now, calls>>

\* Fault: the refresh_token is defaulted instead of required
do_refresh_frame_unchecked(f, existing) ==
    IF ~IsSome(existing.client_id)
    THEN Returned(f, Err("client_id missing from session"))
    ELSE [f EXCEPT !.pc = "refresh_wait", !.existing = existing, !.grants = @ + 1]

\* do_refresh up to the POST of the refresh grant
do_refresh_frame(f, existing) ==
    IF ~IsSome(existing.refresh_token)
    THEN Returned(f, Err("no refresh_token present"))
    ELSE IF ~IsSome(existing.client_id)
    THEN Returned(f, Err("client_id missing from session"))
    ELSE [f EXCEPT !.pc = "refresh_wait", !.existing = existing, !.grants = @ + 1]

\* pub async fn refresh_session
refresh_session_frame(f, stored) ==
    LET g == [f EXCEPT !.loaded = stored]
    IN  IF ~IsSome(stored) THEN Returned(g, Err("no session"))
        ELSE do_refresh_frame(g, Unwrap(stored))

refresh_session(p) ==
    /\ CanInvoke(p)
    /\ calls' = calls + 1
    /\ frame' = [frame EXCEPT ![p] =
                    refresh_session_frame(Loading("refresh_session", file),
                                          load_session(file))]
    /\ UNCHANGED <<file, now>>

\* pub async fn ensure_fresh_session
ensure_fresh_session_frame(f, stored, t) ==
    LET g == [f EXCEPT !.loaded = stored, !.read_now = Some(t)]
    IN  IF ~IsSome(stored) THEN Returned([g EXCEPT !.read_now = None], Err("no session"))
        ELSE IF is_fresh(Unwrap(stored), t) THEN Returned(g, Ok(stored))
        ELSE do_refresh_frame(g, Unwrap(stored))

ensure_fresh_session(p) ==
    /\ CanInvoke(p)
    /\ calls' = calls + 1
    /\ frame' = [frame EXCEPT ![p] =
                    ensure_fresh_session_frame(Loading("ensure_fresh_session", file),
                                               load_session(file), now)]
    /\ UNCHANGED <<file, now>>

\* Fault: the status of the response is not looked at
refresh_reply_frame_any_status(f, reply, t) ==
    IF reply.kind = "transport_error" THEN Returned(f, Err("refresh token request failed"))
    ELSE IF reply.kind = "bad_body" THEN Returned(f, Err("refresh decode failed"))
    ELSE [f EXCEPT !.pc = "persist_write", !.persists = @ + 1, !.tok = reply.tok,
                   !.existing = merge_refresh(f.existing, reply.tok, t)]

\* do_refresh from the token response into persist_session
refresh_reply_frame(f, reply, t) ==
    IF reply.kind = "transport_error" THEN Returned(f, Err("refresh token request failed"))
    ELSE IF reply.kind = "status_error" THEN Returned(f, Err("refresh failed"))
    ELSE IF reply.kind = "bad_body" THEN Returned(f, Err("refresh decode failed"))
    ELSE [f EXCEPT !.pc = "persist_write", !.persists = @ + 1, !.tok = reply.tok,
                   !.existing = merge_refresh(f.existing, reply.tok, t)]

refresh_reply(p, reply) ==
    /\ frame[p].pc = "refresh_wait"
    /\ frame' = [frame EXCEPT ![p] =
                    opening(refresh_reply_frame([frame[p] EXCEPT
                                                    !.http = reply.kind,
                                                    !.tok_at = received(reply, now)],
                                                reply, now), file)]
    /\ file' = IF frame'[p].pc = "persist_write" THEN Truncated ELSE file
    /\ UNCHANGED <<now, calls>>

\* The clock moves on
Tick ==
    /\ \E t \in Times : t > now /\ now' = t
    /\ UNCHANGED <<file, calls, frame>>

-----------------------------------------------------------------------------
(* Specification *)

Init ==
    /\ file = NoFile
    /\ now = 0
    /\ calls = 0
    /\ frame = [p \in Procs |-> NewFrame("none")]

\* The redirect requests of the lifecycle specification: the provider's
\* redirect, a stale or forged one, one without a code, one without a state.
LifecycleConnections ==
    {c \in Connections :
        IsSome(c.query) =>
            Unwrap(c.query) \in {<<<<"code", "=", "c1">>, <<"state", "=", "s1">>>>,
                                 <<<<"code", "=", "c1">>, <<"state", "=", "s2">>>>,
                                 <<<<"state", "=", "s1">>>>,
                                 <<<<"code", "=", "c1">>>>}}

\* One command at a time, invoked from the frontend
Caller == "p1"

Next ==
    \/ get_session(Caller)
    \/ logout(Caller)
    \/ \E cfg \in Configs, env \in {"ok", "bind_error", "open_error"} :
           google_auth_start(Caller, cfg, env, RANDOM_BYTES)
    \/ \E conn \in LifecycleConnections : auth_redirect(Caller, conn)
    \/ \E reply \in TokenReplies : auth_token_reply(Caller, reply)
    \/ \E reply \in UserinfoReplies : auth_userinfo_reply(Caller, reply)
    \/ persist_write(Caller)
    \/ refresh_session(Caller)
    \/ ensure_fresh_session(Caller)
    \/ \E reply \in TokenReplies : refresh_reply(Caller, reply)
    \/ Tick

Spec == Init /\ [][Next]_vars

\* The sign-in alone, with every redirect request of up to MaxPairs parameters
RedirectTokenReplies ==
    {r \in TokenReplies : r.kind = "status_error" \/ (r.kind = "ok" /\ r.tok = BaseTok)}

RedirectUserinfoReplies ==
    {r \in UserinfoReplies : r.kind = "transport_error" \/ r.info = FullInfo}

RedirectNext ==
    \/ \E cfg \in Configs, env \in {"ok", "bind_error", "open_error"} :
           google_auth_start(Caller, cfg, env, RANDOM_BYTES)
    \/ \E conn \in Connections : auth_redirect(Caller, conn)
    \/ \E reply \in RedirectTokenReplies : auth_token_reply(Caller, reply)
    \/ \E reply \in RedirectUserinfoReplies : auth_userinfo_reply(Caller, reply)
    \/ persist_write(Caller)

RedirectSpec == Init /\ [][RedirectNext]_vars

\* Commands invoked from both slots, overlapping in time: tauri runs each
\* async command as a task of its own, and nothing in oauth.rs holds a lock.
\* The provider refuses, or answers with a short-lived token or with a
\* long-lived one; the clock stands still.
ConcConfigs == {cfg \in Configs : trim(cfg.client_id) # << >> /\ client_secret_opt(cfg) = None}

ConcConnections ==
    {c \in LifecycleConnections : IsSome(c.query) /\ Len(Unwrap(c.query)) = 2}

ConcTokenReplies ==
    {r \in TokenReplies :
        r.kind = "status_error"
        \/ (r.kind = "ok" /\ r.tok \in {[BaseTok EXCEPT !.expires_in = Some(50)],
                                        [BaseTok EXCEPT !.access_token = "a2"]})}

ConcUserinfoReplies == {r \in UserinfoReplies : r.kind = "json" /\ r.info = FullInfo}

ConcNext ==
    \E p \in Procs :
        \/ get_session(p)
        \/ logout(p)
        \/ \E cfg \in ConcConfigs : google_auth_start(p, cfg, "ok", RANDOM_BYTES)
        \/ \E conn \in ConcConnections : auth_redirect(p, conn)
        \/ \E reply \in ConcTokenReplies : auth_token_reply(p, reply)
        \/ \E reply \in ConcUserinfoReplies : auth_userinfo_reply(p, reply)
        \/ persist_write(p)
        \/ refresh_session(p)
        \/ ensure_fresh_session(p)
        \/ \E reply \in ConcTokenReplies : refresh_reply(p, reply)

ConcSpec == Init /\ [][ConcNext]_vars

\* The sign-in with the random buffer at other sizes than RANDOM_BYTES, so
\* that the encoding comes out shorter than VERIFIER_MIN (30 bytes: 40
\* characters), at it, between the guards, at VERIFIER_MAX and beyond it.
PkceBytes == {0, 30, 31, 32, RANDOM_BYTES, 96, 97, 120}

PkceNext ==
    \/ \E cfg \in Configs, env \in {"ok", "bind_error", "open_error"}, vr \in PkceBytes :
           google_auth_start(Caller, cfg, env, vr)
    \/ \E conn \in LifecycleConnections : auth_redirect(Caller, conn)
    \/ \E reply \in RedirectTokenReplies : auth_token_reply(Caller, reply)
    \/ \E reply \in RedirectUserinfoReplies : auth_userinfo_reply(Caller, reply)
    \/ persist_write(Caller)

PkceSpec == Init /\ [][PkceNext]_vars

\* The sign-in under fair scheduling.  An awaited HTTP request comes back
\* with a response or an error, and the straight-line code of persist_session
\* runs on; the connection to the listener is the user's to make, and
\* listener.accept() has no timeout, so nothing is assumed about it.
RedirectFairSpec ==
    /\ RedirectSpec
    /\ WF_vars(\E reply \in RedirectTokenReplies : auth_token_reply(Caller, reply))
    /\ WF_vars(\E reply \in RedirectUserinfoReplies : auth_userinfo_reply(Caller, reply))
    /\ WF_vars(persist_write(Caller))

-----------------------------------------------------------------------------
(* Properties *)

ReturnedFrom(p, name) == frame[p].op = name /\ frame[p].pc = "idle"

\* The session a call loaded is stale at the time the call read the clock:
\* expires_at is present and at most 60 seconds ahead.
LoadedStale(p) ==
    /\ IsSome(frame[p].loaded) /\ IsSome(frame[p].read_now)
    /\ IsSome(Unwrap(frame[p].loaded).expires_at)
    /\ Unwrap(Unwrap(frame[p].loaded).expires_at) - Unwrap(frame[p].read_now) <= 60

LoadedFarAhead(p) ==
    /\ IsSome(frame[p].loaded) /\ IsSome(frame[p].read_now)
    /\ IsSome(Unwrap(frame[p].loaded).expires_at)
    /\ Unwrap(Unwrap(frame[p].loaded).expires_at) - Unwrap(frame[p].read_now) > 60

LoadedCanRefresh(p) ==
    /\ IsSome(Unwrap(frame[p].loaded).refresh_token)
    /\ IsSome(Unwrap(frame[p].loaded).client_id)

\* C1 as stated: a call of ensure_fresh_session that found a stored session
\* posts no refresh grant and returns the stored session when expires_at - now
\* > 60, and has posted exactly one refresh grant when it returns otherwise;
\* it never posts more than one.
C1_Original ==
    \A p \in Procs :
        (frame[p].op = "ensure_fresh_session" /\ IsSome(frame[p].loaded)) =>
            /\ frame[p].grants <= 1
            /\ ReturnedFrom(p, "ensure_fresh_session") =>
                   IF LoadedFarAhead(p)
                   THEN frame[p].grants = 0 /\ frame[p].result = Ok(frame[p].loaded)
                   ELSE frame[p].grants = 1

\* C1 amended: a call of ensure_fresh_session that found a stored session
\* posts no refresh grant and returns the stored session when expires_at - now
\* > 60; otherwise it has posted exactly one refresh grant when it returns if
\* the stored session has a refresh_token and a client_id, and none if it
\* lacks either; it never posts more than one.
C1_Amended ==
    \A p \in Procs :
        (frame[p].op = "ensure_fresh_session" /\ IsSome(frame[p].loaded)) =>
            /\ frame[p].grants <= 1
            /\ ReturnedFrom(p, "ensure_fresh_session") =>
                   IF LoadedFarAhead(p)
                   THEN frame[p].grants = 0 /\ frame[p].result = Ok(frame[p].loaded)
                   ELSE frame[p].grants = IF LoadedCanRefresh(p) THEN 1 ELSE 0

\* A stale session was refreshed by one grant; another call's one grant failed.
C1_Witness ==
    \E p \in Procs :
        /\ ReturnedFrom(p, "ensure_fresh_session") /\ LoadedStale(p)
        /\ frame[p].grants = 1 /\ frame[p].result.kind = "ok"

\* C2 as stated: when ensure_fresh_session returns a session, that session's
\* expires_at is more than 60 seconds after the time of the return.
C2_Original ==
    [][\A p \in Procs :
          (/\ frame'[p] # frame[p]
           /\ frame'[p].op = "ensure_fresh_session"
           /\ frame'[p].pc = "idle"
           /\ frame'[p].result.kind = "ok") =>
              /\ IsSome(Unwrap(frame'[p].result.val).expires_at)
              /\ Unwrap(Unwrap(frame'[p].result.val).expires_at) - now' > 60]_vars

\* C3 as stated: a call of ensure_fresh_session that found a stored session
\* without expires_at posts no refresh grant and returns that session.
C3_Original ==
    \A p \in Procs :
        (/\ frame[p].op = "ensure_fresh_session" /\ IsSome(frame[p].loaded)
         /\ ~IsSome(Unwrap(frame[p].loaded).expires_at)) =>
            /\ frame[p].grants = 0
            /\ ReturnedFrom(p, "ensure_fresh_session")
            /\ frame[p].result = Ok(frame[p].loaded)

\* C3 amended: a call of ensure_fresh_session that found a stored session
\* without expires_at treats it as stale: it posts one refresh grant if the
\* session has a refresh_token and a client_id, and otherwise fails with no
\* grant posted and nothing written.
C3_Amended ==
    \A p \in Procs :
        (/\ frame[p].op = "ensure_fresh_session" /\ IsSome(frame[p].loaded)
         /\ ~IsSome(Unwrap(frame[p].loaded).expires_at)) =>
            IF LoadedCanRefresh(p)
            THEN frame[p].grants = 1
            ELSE /\ frame[p].grants = 0 /\ frame[p].persists = 0
                 /\ ReturnedFrom(p, "ensure_fresh_session")
                 /\ frame[p].result.kind = "err"

C3_Witness ==
    \E p \in Procs :
        /\ ReturnedFrom(p, "ensure_fresh_session") /\ IsSome(frame[p].loaded)
        /\ ~IsSome(Unwrap(frame[p].loaded).expires_at)
        /\ frame[p].grants = 1 /\ frame[p].result.kind = "ok"

\* The query has a state parameter whose decoded value is not `state`
HasOtherState(query, state) ==
    \E i \in 1..Len(query) :
        /\ split_key(query[i]) = <<"state">>
        /\ decode(split_value(query[i])) # state

HasCode(query) == \E i \in 1..Len(query) : split_key(query[i]) = <<"code">>

\* C4: once the listener has read a redirect request that carries a state
\* parameter different from the attempt's state, the attempt has ended in an
\* error with no authorization-code grant posted, no code taken, no userinfo
\* request and no persist_session, wherever the parameter stands in the query
\* and whether or not a code is there.
C4_StateMismatchAborts ==
    \A p \in Procs :
        (/\ frame[p].op = "google_auth_start" /\ frame[p].line.io = "ok"
         /\ IsSome(frame[p].line.query)
         /\ HasOtherState(Unwrap(frame[p].line.query), StateOf(p))) =>
            /\ ReturnedFrom(p, "google_auth_start")
            /\ frame[p].result.kind = "err"
            /\ frame[p].code = None
            /\ frame[p].exchanges = 0 /\ frame[p].fetches = 0 /\ frame[p].persists = 0

\* The mismatching state came after a code and after a matching state.
C4_Witness ==
    \E p \in Procs :
        /\ ReturnedFrom(p, "google_auth_start") /\ IsSome(frame[p].line.query)
        /\ Unwrap(frame[p].line.query) =
               <<<<"code", "=", "c1">>, <<"state", "=", "s1">>, <<"state", "=", "s2">>>>
        /\ frame[p].result = Err("state mismatch")

\* C5: once the listener has read a redirect request with no code parameter,
\* the attempt has ended in an error with no authorization-code grant posted
\* and no persist_session, also when its state is the attempt's state.
C5_MissingCodeRejected ==
    \A p \in Procs :
        (/\ frame[p].op = "google_auth_start" /\ frame[p].line.io = "ok"
         /\ (IsSome(frame[p].line.query) => ~HasCode(Unwrap(frame[p].line.query)))) =>
            /\ ReturnedFrom(p, "google_auth_start")
            /\ frame[p].result.kind = "err"
            /\ frame[p].exchanges = 0 /\ frame[p].fetches = 0 /\ frame[p].persists = 0

C5_Witness ==
    \E p \in Procs :
        /\ ReturnedFrom(p, "google_auth_start") /\ IsSome(frame[p].line.query)
        /\ Unwrap(frame[p].line.query) = <<<<"state", "=", "s1">>>>
        /\ frame[p].result = Err("authorization code missing")

RefreshOps == {"refresh_session", "ensure_fresh_session"}

\* C6: in a refresh whose grant succeeded, the session being persisted, and
\* once the call has returned the session stored and returned, has a
\* refresh_token: the response's when it carries one, the prior one when not.
C6_RefreshTokenKept ==
    \A p \in Procs :
        (/\ frame[p].op \in RefreshOps /\ frame[p].http = "ok") =>
            LET prior == Unwrap(frame[p].loaded).refresh_token
                kept == IF IsSome(frame[p].tok.refresh_token)
                        THEN frame[p].tok.refresh_token ELSE prior
            IN  /\ IsSome(prior)
                /\ frame[p].existing.refresh_token = kept
                /\ frame[p].pc = "idle" =>
                       /\ frame[p].result = Ok(Some(frame[p].existing))
                       /\ file = Written(frame[p].existing)
                       /\ IsSome(Unwrap(load_session(file)).refresh_token)

\* The response omitted refresh_token and the prior one is in the file.
C6_Witness ==
    \E p \in Procs :
        /\ frame[p].op \in RefreshOps /\ frame[p].http = "ok" /\ frame[p].pc = "idle"
        /\ ~IsSome(frame[p].tok.refresh_token)
        /\ file.kind = "session" /\ file.data.refresh_token = Some("r2")

\* C7: a call of ensure_fresh_session that found a stale stored session
\* without refresh_token has returned an error, posted no refresh grant, made
\* no persist_session, and the file holds the session it loaded.
C7_StaleNoRefreshToken ==
    \A p \in Procs :
        (/\ frame[p].op = "ensure_fresh_session" /\ LoadedStale(p)
         /\ ~IsSome(Unwrap(frame[p].loaded).refresh_token)) =>
            /\ ReturnedFrom(p, "ensure_fresh_session")
            /\ frame[p].result.kind = "err"
            /\ frame[p].grants = 0 /\ frame[p].persists = 0
            /\ file = Written(Unwrap(frame[p].loaded))

C7_Witness ==
    \E p \in Procs :
        /\ ReturnedFrom(p, "ensure_fresh_session") /\ LoadedStale(p)
        /\ ~IsSome(Unwrap(frame[p].loaded).refresh_token)
        /\ frame[p].result = Err("no refresh_token present")

\* C8: a refresh whose grant ended in a transport error, a non-success status
\* or an undecodable body has returned an error, made no persist_session, and
\* the file holds the session the call loaded; a refresh call made
\* persist_session only if its grant succeeded.
C8_FailedRefreshLeavesFile ==
    \A p \in Procs :
        frame[p].op \in RefreshOps =>
            /\ frame[p].http \in {"transport_error", "status_error", "bad_body"} =>
                   /\ frame[p].pc = "idle" /\ frame[p].result.kind = "err"
                   /\ frame[p].grants = 1 /\ frame[p].persists = 0
                   /\ file = Written(Unwrap(frame[p].loaded))
            /\ frame[p].persists > 0 => frame[p].http = "ok"

C8_Witness ==
    \E p \in Procs :
        /\ ReturnedFrom(p, "ensure_fresh_session") /\ frame[p].http = "status_error"
        /\ frame[p].result = Err("refresh failed")
        /\ file = Written(Unwrap(frame[p].loaded))

\* C9: when logout has returned it returned Ok and the file is absent,
\* whether or not a file existed; a get_session invoked next returns no
\* session, and a logout invoked next finds no file, returns Ok and leaves
\* the file absent.
C9_SignOut ==
    /\ [](\A p \in Procs :
            ReturnedFrom(p, "logout") =>
                /\ frame[p].result = Ok(None)
                /\ file = NoFile /\ load_session(file) = None)
    /\ [][\A p \in Procs :
            (ReturnedFrom(p, "logout") /\ calls' = calls + 1) =>
                /\ frame'[p].op = "get_session" => frame'[p].result = Ok(None)
                /\ frame'[p].op = "logout" =>
                       /\ ~frame'[p].existed /\ frame'[p].result = Ok(None)
                       /\ file' = NoFile]_vars

\* logout removed a file that existed.
C9_Witness ==
    \E p \in Procs : ReturnedFrom(p, "logout") /\ frame[p].existed /\ file = NoFile

\* C10 as stated: the stored session, as a reader loads it, is absent or has
\* a non-empty access_token.
C10_Original ==
    IsSome(load_session(file)) => Unwrap(load_session(file)).access_token # ""

\* p is the slot that invoked a command in this step
Invoked(p) ==
    /\ calls' = calls + 1
    /\ \A q \in Procs \ {p} : frame'[q] = frame[q]

\* C11 as stated: a get_session invoked while another command is inside
\* persist_session returns the complete session stored before that write or
\* the complete session the write stores, never 'no session' that comes from
\* the half-written file.
C11_Original ==
    [][\A p \in Procs :
          (Invoked(p) /\ frame'[p].op = "get_session") =>
              \A q \in Procs \ {p} :
                  frame[q].pc = "persist_write" =>
                      frame'[p].result \in {Ok(frame[q].before),
                                            Ok(Some(frame[q].existing))}]_vars

\* C12 as stated: two calls of ensure_fresh_session that are in flight
\* together on the same stored session have posted at most one refresh grant
\* between them.
C12_Original ==
    \A p, q \in Procs :
        (/\ p # q
         /\ frame[p].op = "ensure_fresh_session" /\ frame[p].pc # "idle"
         /\ frame[q].op = "ensure_fresh_session" /\ frame[q].pc # "idle"
         /\ frame[p].loaded = frame[q].loaded) =>
            frame[p].grants + frame[q].grants <= 1

\* C13 as stated: at most one sign-in attempt is in flight at any time.
C13_Original ==
    \A p, q \in Procs :
        (/\ frame[p].op = "google_auth_start" /\ frame[p].pc # "idle"
         /\ frame[q].op = "google_auth_start" /\ frame[q].pc # "idle") =>
            p = q

\* The userinfo request of a sign-in came back with a success status and a
\* body that decodes
ProfileFetched(f) == f.info_http = "json" /\ f.info_status \in 200..299

\* C14 as stated: a sign-in has called persist_session only if its token
\* exchange and its profile fetch succeeded, and a step of a sign-in changes
\* the session file only when it enters persist_session or completes it: a
\* sign-in that fails at the configuration, the listener, the browser, the
\* redirect, the token exchange or the profile fetch, or that stays waiting
\* for a redirect, leaves the file as it was.
C14_Original ==
    /\ [](\A p \in Procs :
            (frame[p].op = "google_auth_start" /\ frame[p].persists > 0) =>
                /\ frame[p].http = "ok" /\ ProfileFetched(frame[p])
                /\ \/ frame[p].pc = "persist_write"
                   \/ frame[p].pc = "idle" /\ frame[p].result.kind = "ok")
    /\ [][\A p \in Procs :
            (/\ frame'[p] # frame[p]
             /\ frame'[p].op = "google_auth_start"
             /\ frame'[p].pc # "persist_write"
             /\ frame'[p].result.kind # "ok") =>
                file' = file]_vars

\* C15: a command that met a session file that exists and does not parse
\* did what it does when there is no file: get_session returned Ok with no
\* session; refresh_session and ensure_fresh_session returned the error
\* "no session" with no refresh grant posted and no persist_session, so
\* without touching the file.
C15_UnparsableAsAbsent ==
    \A p \in Procs :
        frame[p].found = "unparsable" =>
            /\ frame[p].loaded = None
            /\ frame[p].op = "get_session" => frame[p].result = Ok(None)
            /\ frame[p].op \in RefreshOps =>
                   /\ frame[p].pc = "idle"
                   /\ frame[p].result = Err("no session")
                   /\ frame[p].grants = 0 /\ frame[p].persists = 0

\* ensure_fresh_session met the file another command was writing.
C15_Witness ==
    \E p \in Procs :
        /\ ReturnedFrom(p, "ensure_fresh_session")
        /\ frame[p].found = "unparsable"
        /\ frame[p].result = Err("no session")
        /\ file = Truncated

\* C16: the verifier of every attempt is 43 to 128 characters long: an
\* encoding shorter than 43 is kept whole and followed by 'A' up to exactly
\* 43, one longer than 128 is cut to its first 128 characters, one in range
\* is unchanged; the challenge in the auth URL is the encoded SHA-256 of that
\* final verifier, and the code exchange posts that same verifier.
C16_VerifierRange ==
    \A p \in Procs :
        IsSome(frame[p].code_verifier) =>
            LET v == Unwrap(frame[p].code_verifier)
                n == (4 * v.src + 2) \div 3
            IN  /\ v.kept + v.filler >= 43 /\ v.kept + v.filler <= 128
                /\ n < 43 => v.kept = n /\ v.filler = 43 - n
                /\ n > 128 => v.kept = 128 /\ v.filler = 0
                /\ (n >= 43 /\ n <= 128) => v.kept = n /\ v.filler = 0
                /\ frame[p].code_challenge = Some([b64 |-> [sha256 |-> v]])
                /\ frame[p].exchanges > 0 => frame[p].posted_verifier = Some(v)

\* A 40-character encoding went out as 40 characters and three 'A'.
C16_Witness ==
    \E p \in Procs :
        /\ frame[p].pc = "token_wait"
        /\ frame[p].posted_verifier = Some([src |-> 30, kept |-> 40, filler |-> 3])

\* C17 as stated: every sign-in attempt that is under way eventually ends,
\* with a session or with an error.
C17_Original ==
    \A p \in Procs :
        (frame[p].op = "google_auth_start" /\ frame[p].pc # "idle")
            ~> (frame[p].pc = "idle" /\ frame[p].result.kind \in {"ok", "err"})

\* Where a sign-in attempt stands: 1 AwaitingRedirect, 2 ExchangingCode,
\* 3 FetchingProfile, 4 storing the session, 5 Authenticated, 9 Failed
Stage(f) ==
    CASE f.pc = "accept" -> 1
      [] f.pc = "token_wait" -> 2
      [] f.pc = "userinfo_wait" -> 3
      [] f.pc = "persist_write" -> 4
      [] f.pc = "idle" /\ f.result.kind = "ok" -> 5
      [] OTHER -> 9

\* C18 as stated: a sign-in attempt starts in AwaitingRedirect or fails at
\* once, and each of its steps takes it to the next stage or to Failed, from
\* which no step of the attempt leads on; the listener's read happens once;
\* the code exchange was posted, once, only for a request read without error
\* whose query has a code and no state other than the attempt's; the
\* userinfo request was sent, once, only after the exchange succeeded;
\* persist_session was called, once, only after the profile fetch succeeded.
C18_Original ==
    /\ [](\A p \in Procs :
            frame[p].op = "google_auth_start" =>
                /\ frame[p].exchanges <= 1 /\ frame[p].fetches <= 1
                /\ frame[p].persists <= 1
                /\ (Stage(frame[p]) = 1) = (frame[p].pc # "idle" /\ frame[p].line.io = "none")
                /\ frame[p].exchanges > 0 =>
                       /\ frame[p].line.io = "ok" /\ IsSome(frame[p].line.query)
                       /\ HasCode(Unwrap(frame[p].line.query))
                       /\ ~HasOtherState(Unwrap(frame[p].line.query), StateOf(p))
                /\ frame[p].fetches > 0 =>
                       frame[p].exchanges = 1 /\ frame[p].http = "ok"
                /\ frame[p].persists > 0 =>
                       frame[p].fetches = 1 /\ ProfileFetched(frame[p])
                /\ Stage(frame[p]) = 5 => frame[p].persists = 1)
    /\ [][\A p \in Procs :
            (frame'[p] # frame[p] /\ frame'[p].op = "google_auth_start") =>
                IF calls' = calls + 1
                THEN Stage(frame'[p]) \in {1, 9}
                ELSE /\ Stage(frame[p]) \in 1..4
                     /\ Stage(frame'[p]) \in {Stage(frame[p]) + 1, 9}
                     /\ Stage(frame[p]) > 1 => frame'[p].line = frame[p].line]_vars

\* The expires_at the claim gives a session made from the TokenResp of f
ExpiryFromResponse(f) ==
    IF IsSome(f.tok.expires_in)
    THEN Some(Unwrap(f.tok_at) + Unwrap(f.tok.expires_in) - 30)
    ELSE None

\* C19 as stated: the session a sign-in or a refresh stores has expires_at =
\* (time of the token response) + expires_in - 30 when the response has
\* expires_in and no expires_at when it has not; and a call of
\* ensure_fresh_session that found a session returns it as stored, with no
\* refresh, exactly when its expires_at is present and more than 60 seconds
\* ahead.
C19_Original ==
    \A p \in Procs :
        /\ (frame[p].op \in RefreshOps \cup {"google_auth_start"} /\ frame[p].persists > 0) =>
               frame[p].existing.expires_at = ExpiryFromResponse(frame[p])
        /\ (frame[p].op = "ensure_fresh_session" /\ IsSome(frame[p].loaded)) =>
               (/\ ReturnedFrom(p, "ensure_fresh_session")
                /\ frame[p].result = Ok(frame[p].loaded)
                /\ frame[p].grants = 0 /\ frame[p].persists = 0)
               <=> LoadedFarAhead(p)

\* C20: in a refresh whose grant succeeded, the session that is stored and
\* returned differs from the one the call loaded in access_token and
\* expires_at, in refresh_token and id_token when the response carries them,
\* and in nothing else: email, name, picture, sub, client_id and
\* client_secret are those of the stored session, and so is id_token when
\* the response omits it.
C20_RefreshKeepsIdentity ==
    \A p \in Procs :
        (frame[p].op \in RefreshOps /\ frame[p].http = "ok") =>
            LET old == Unwrap(frame[p].loaded)
                new == frame[p].existing
            IN  /\ new.email = old.email /\ new.name = old.name
                /\ new.picture = old.picture /\ new.sub = old.sub
                /\ new.client_id = old.client_id
                /\ new.client_secret = old.client_secret
                /\ new.id_token = IF frame[p].tok.id_token = None THEN old.id_token
                                  ELSE frame[p].tok.id_token
                /\ new.refresh_token = IF frame[p].tok.refresh_token = None
                                       THEN old.refresh_token
                                       ELSE frame[p].tok.refresh_token
                /\ new.access_token = frame[p].tok.access_token
                /\ frame[p].pc = "idle" =>
                       file = Written(new) /\ frame[p].result = Ok(Some(new))

\* A refresh whose response had no id_token left the identity, the client
\* fields and the id_token of the sign-in in the file.
C20_Witness ==
    \E p \in Procs :
        /\ frame[p].op \in RefreshOps /\ frame[p].http = "ok" /\ frame[p].pc = "idle"
        /\ frame[p].tok.id_token = None
        /\ file.kind = "session"
        /\ file.data.id_token = Some("i1") /\ file.data.email = Some("e1")
        /\ file.data.sub = Some("u1") /\ file.data.client_id = Some(<<"abc">>)
        /\ file.data.client_secret = Some(<<"sec">>)

\* The identity fields of session s are those of UserInfo u, absent where
\* u has none
IdentityFrom(s, u) ==
    s.sub = u.sub /\ s.email = u.email /\ s.name = u.name /\ s.picture = u.picture

\* C21 as stated: a sign-in whose userinfo request did not come back with a
\* success status and a body that decodes has returned an error and made no
\* persist_session; one whose userinfo response was successful goes on to
\* store a session whose sub, email, name and picture are the response's,
\* absent where the response omits them.
C21_Original ==
    \A p \in Procs :
        (frame[p].op = "google_auth_start" /\ frame[p].info_http # "none") =>
            IF ProfileFetched(frame[p])
            THEN /\ frame[p].persists = 1
                 /\ IdentityFrom(frame[p].existing, frame[p].userinfo)
                 /\ frame[p].pc = "idle" =>
                        /\ frame[p].result = Ok(Some(frame[p].existing))
                        /\ file = Written(frame[p].existing)
            ELSE /\ frame[p].pc = "idle" /\ frame[p].result.kind = "err"
                 /\ frame[p].persists = 0

\* The string is empty or has whitespace only
Blank(str) == \A i \in 1..Len(str) : str[i] = " "

\* C22: a sign-in invoked with a client id that is empty or whitespace only
\* has returned the error "client_id empty" with no listener bound, no
\* browser opened, no request to the token or the userinfo endpoint and no
\* persist_session, and the step that invoked it left the session file as
\* it was.
C22_BlankClientId ==
    /\ [](\A p \in Procs :
            (frame[p].op = "google_auth_start" /\ Blank(frame[p].cfg_client_id)) =>
                /\ frame[p].pc = "idle"
                /\ frame[p].result = Err("client_id empty")
                /\ frame[p].binds = 0 /\ frame[p].opens = 0
                /\ frame[p].exchanges = 0 /\ frame[p].fetches = 0
                /\ frame[p].grants = 0 /\ frame[p].persists = 0)
    /\ [][\A p \in Procs :
            (/\ calls' = calls + 1
             /\ frame'[p].op = "google_auth_start"
             /\ Blank(frame'[p].cfg_client_id)) =>
                file' = file]_vars

\* A sign-in with a whitespace client id failed while a session was stored.
C22_Witness ==
    \E p \in Procs :
        /\ ReturnedFrom(p, "google_auth_start")
        /\ frame[p].cfg_client_id = <<" ">>
        /\ frame[p].result = Err("client_id empty")
        /\ file.kind = "session"

\* The query has a state parameter whose decoded value is `state`
HasOwnState(query, state) ==
    \E i \in 1..Len(query) :
        /\ split_key(query[i]) = <<"state">>
        /\ decode(split_value(query[i])) = state

\* C23 as stated: a sign-in has posted the authorization-code grant only if
\* the redirect request it read has a state parameter equal to the attempt's
\* state.
C23_Original ==
    \A p \in Procs :
        (frame[p].op = "google_auth_start" /\ frame[p].exchanges > 0) =>
            /\ IsSome(frame[p].line.query)
            /\ HasOwnState(Unwrap(frame[p].line.query), StateOf(p))

\* C24 as stated: while the session file is absent, as logout leaves it, the
\* only steps that bring it back are those of a sign-in in persist_session;
\* a refresh that loaded the session before the logout does not.
C24_Original ==
    [][(file.kind = "absent" /\ file' # file) =>
          \E p \in Procs :
              /\ frame[p].op = "google_auth_start"
              /\ frame'[p] # frame[p]
              /\ frame'[p].persists = 1]_vars

\* C25: a refresh whose grant succeeded with a response without expires_in
\* stores a session without expires_at, whatever expires_at it loaded, and
\* with a refresh_token and a client_id; a session that is stored has an
\* expires_at only if the response it was made from had expires_in; and a
\* call of ensure_fresh_session that finds a stored session without
\* expires_at that has a refresh_token and a client_id posts a refresh grant.
C25_AbsentExpiryRefreshes ==
    /\ [](\A p \in Procs :
            /\ (frame[p].op \in RefreshOps /\ frame[p].http = "ok"
                 /\ frame[p].tok.expires_in = None) =>
                   /\ frame[p].existing.expires_at = None
                   /\ frame[p].existing.refresh_token # None
                   /\ frame[p].existing.client_id # None
                   /\ frame[p].pc = "idle" =>
                          /\ file = Written(frame[p].existing)
                          /\ frame[p].result = Ok(Some(frame[p].existing))
            /\ frame[p].persists > 0 =>
                   (frame[p].existing.expires_at # None) = (frame[p].tok.expires_in # None))
    /\ [][\A p \in Procs :
            (/\ calls' = calls + 1
             /\ frame[p].pc = "idle"
             /\ frame'[p].op = "ensure_fresh_session"
             /\ frame'[p].found = "session"
             /\ file.kind = "session"
             /\ file.data.expires_at = None
             /\ file.data.refresh_token # None /\ file.data.client_id # None) =>
                /\ frame'[p].pc = "refresh_wait"
                /\ frame'[p].grants = 1
                /\ frame'[p].loaded = Some(file.data)]_vars

\* ensure_fresh_session found a session without expires_at and refreshed it;
\* the response had no expires_in either and the stored session has none.
C25_Witness ==
    \E p \in Procs :
        /\ ReturnedFrom(p, "ensure_fresh_session")
        /\ IsSome(frame[p].loaded)
        /\ Unwrap(frame[p].loaded).expires_at = None
        /\ frame[p].grants = 1 /\ frame[p].http = "ok"
        /\ frame[p].tok.expires_in = None
        /\ file.kind = "session" /\ file.data.expires_at = None

====
